---- MODULE Spec2Model ----
(***************************************************************************)
(* PIL.ImageMath: the _Operand wrapper (mode promotion, size              *)
(* reconciliation, kernel dispatch) and eval (namespace construction,     *)
(* static name scan, restricted execution, unwrapping).                   *)
(*                                                                         *)
(* Identifiers are sequences of one-character strings, so that the        *)
(* substring and prefix tests of the source can be computed.  Values of   *)
(* the host runtime are records tagged by the field k.                     *)
(***************************************************************************)
EXTENDS Integers, Sequences, FiniteSets, TLC

\* pc is eval's position and phases the steps it has entered so far; expression,
\* _dict, kw, args, compiled_code and out are eval's parameters and locals;
\* result is the value returned and exc the exception raised; kernelCalls are
\* the kernel invocations and resolved the name lookups of the execution
VARIABLES pc, expression, _dict, kw, args, compiled_code, out, result, exc,
          kernelCalls, resolved, phases

vars == <<pc, expression, _dict, kw, args, compiled_code, out, result, exc,
          kernelCalls, resolved, phases>>

(* ------------------------------ bounds -------------------------------- *)
MaxW == 2
MaxH == 2

(* --------------------------- identifiers ------------------------------ *)
n_a == <<"a">>
n_b == <<"b">>
n_c == <<"c">>
n_y == <<"y">>
n_abs == <<"a","b","s">>
n_int == <<"i","n","t">>
n_float == <<"f","l","o","a","t">>
n_min == <<"m","i","n">>
n_max == <<"m","a","x">>
n_len == <<"l","e","n">>
n_open == <<"o","p","e","n">>
n_equal == <<"e","q","u","a","l">>
n_notequal == <<"n","o","t","e","q","u","a","l">>
n_convert == <<"c","o","n","v","e","r","t">>
n_eval == <<"e","v","a","l">>
n_ops == <<"o","p","s">>
n_Operand == <<"_","O","p","e","r","a","n","d">>
n_a__b == <<"a","_","_","b">>
n_import == <<"_","_","i","m","p","o","r","t","_","_">>
n_builtins1 == <<"_","_","b","u","i","l","t","i","n","s">>
n_builtins2 == <<"_","_","b","u","i","l","t","i","n","s","_","_">>
imagemath_ == <<"i","m","a","g","e","m","a","t","h","_">>

\* the attributes of the host's builtins module that the model distinguishes
HostBuiltins == {n_abs, n_int, n_float, n_min, n_max, n_len, n_open, n_eval, n_import}

(* ------------------------------ values -------------------------------- *)
NoneV == [k |-> "none"]
Num(n) == [k |-> "num", v |-> n]
Bool(b) == [k |-> "bool", v |-> b]
Str(s) == [k |-> "str", s |-> s]
Exc(type, what) == [k |-> "exc", type |-> type, what |-> what]
Builtin(n) == [k |-> "builtin", name |-> n]
HostResult(n) == [k |-> "host", name |-> n]
Func(n) == [k |-> "func", name |-> n]
Tuple(s) == [k |-> "tuple", elts |-> s]
IsExc(v) == v.k = "exc"

\* one step of an image's derivation: the operation, its string and integer arguments
Tok(f, s, a) == [f |-> f, s |-> s, a |-> a]

\* an image-like value: mode, size and the derivation that produced it
Img(mode, size, hist) == [k |-> "img", mode |-> mode, size |-> size, hist |-> hist]

InputImage(tag, mode, size) == Img(mode, size, <<Tok("input", tag, <<>>)>>)

FillOf(v) == IF v.k = "num" THEN <<v.v>>
             ELSE IF v.k = "bool" THEN <<IF v.v THEN 1 ELSE 0>>
             ELSE <<>>

\* Image.new(mode, size, fill)
ImageNew(mode, size, fill) ==
    IF fill.k \in {"num", "bool", "none"}
    THEN Img(mode, size, <<Tok("new", mode, FillOf(fill))>>)
    ELSE Exc("TypeError", "color")

\* im.convert(mode)
ImageConvert(im, mode) == Img(mode, im.size, <<Tok("convert", mode, <<>>)>> \o im.hist)

\* im.crop(box)
ImageCrop(im, box) ==
    Img(im.mode, <<box[3] - box[1], box[4] - box[2]>>, <<Tok("crop", "", box)>> \o im.hist)

\* _Operand(im)
Operand(im) == [k |-> "operand", im |-> im]

\* hasattr(v, "im")
HasIm(v) == v.k \in {"img", "operand"}

(* --------------------------- kernel registry -------------------------- *)
\* the operations _imagingmath registers for 32-bit-integer images
KernelOps_I == {"abs", "neg", "add", "sub", "mul", "div", "mod", "pow", "invert",
                "and", "or", "xor", "lshift", "rshift",
                "eq", "ne", "lt", "le", "gt", "ge", "min", "max"}

\* the operations _imagingmath registers for floating-point images
KernelOps_F == {"abs", "neg", "add", "sub", "mul", "div", "mod", "pow",
                "eq", "ne", "lt", "le", "gt", "ge", "min", "max"}

\* getattr(_imagingmath, op + "_" + mode) succeeds
HasKernel(op, mode) == \/ mode = "I" /\ op \in KernelOps_I
                       \/ mode = "F" /\ op \in KernelOps_F

NoImage == Img("", <<0, 0>>, <<>>)

\* one invocation of _imagingmath.unop / _imagingmath.binop
KernelCall(fn, op, mode, o, im1, im2) ==
    [fn |-> fn, op |-> op, mode |-> mode, out |-> o, im1 |-> im1, im2 |-> im2]

\* the output image once the kernel has filled it
Filled(o, fn, op, im1, im2) ==
    Img(o.mode, o.size,
        <<Tok(fn, op, <<Len(im1.hist), Len(im2.hist)>>)>> \o o.hist \o im1.hist \o im2.hist)

(* ------------------------------ _Operand ------------------------------ *)
\* __fixup without the promotion of "1" and "L" images to "I"
FixupNoPromotion(self, im1) ==
    IF im1.k = "operand"
    THEN IF im1.im.mode \in {"1", "L", "I", "F"} THEN im1.im
         ELSE Exc("ValueError", "unsupported mode")
    ELSE IF im1.k \in {"num", "bool"} /\ self.im.mode \in {"1", "L", "I"}
         THEN ImageNew("I", self.im.size, im1)
         ELSE ImageNew("F", self.im.size, im1)

\* _Operand.__fixup(self, im1)
Fixup(self, im1) ==
    IF im1.k = "operand"
    THEN IF im1.im.mode \in {"1", "L"} THEN ImageConvert(im1.im, "I")
         ELSE IF im1.im.mode \in {"I", "F"} THEN im1.im
         ELSE Exc("ValueError", "unsupported mode")
    ELSE IF im1.k \in {"num", "bool"} /\ self.im.mode \in {"1", "L", "I"}
         THEN ImageNew("I", self.im.size, im1)
         ELSE ImageNew("F", self.im.size, im1)

\* mode reconciliation that converts the first argument only
ReconcileModesFirstOnly(im_1, im_2) ==
    IF im_1.mode # im_2.mode
    THEN << IF im_1.mode # "F" THEN ImageConvert(im_1, "F") ELSE im_1, im_2 >>
    ELSE <<im_1, im_2>>

\* apply, binary branch: convert both arguments to floating point
ReconcileModes(im_1, im_2) ==
    IF im_1.mode # im_2.mode
    THEN << IF im_1.mode # "F" THEN ImageConvert(im_1, "F") ELSE im_1,
            IF im_2.mode # "F" THEN ImageConvert(im_2, "F") ELSE im_2 >>
    ELSE <<im_1, im_2>>

Min(x, y) == IF x < y THEN x ELSE y

CommonSize(s1, s2) == <<Min(s1[1], s2[1]), Min(s1[2], s2[2])>>

\* size reconciliation that crops the first argument only
ReconcileSizesFirstOnly(im_1, im_2) ==
    IF im_1.size # im_2.size
    THEN LET size == CommonSize(im_1.size, im_2.size)
         IN << IF im_1.size # size THEN ImageCrop(im_1, <<0, 0>> \o size) ELSE im_1, im_2 >>
    ELSE <<im_1, im_2>>

\* apply, binary branch: crop both arguments to a common size
ReconcileSizes(im_1, im_2) ==
    IF im_1.size # im_2.size
    THEN LET size == CommonSize(im_1.size, im_2.size)
         IN << IF im_1.size # size THEN ImageCrop(im_1, <<0, 0>> \o size) ELSE im_1,
               IF im_2.size # size THEN ImageCrop(im_2, <<0, 0>> \o size) ELSE im_2 >>
    ELSE <<im_1, im_2>>

\* mode or im_1.mode
OutMode(mode, im_1) == IF mode # "" THEN mode ELSE im_1.mode

ApplyUnary(op, im_1, mode) ==
    LET o == ImageNew(OutMode(mode, im_1), im_1.size, NoneV)
    IN IF ~HasKernel(op, im_1.mode)
       THEN [val |-> Exc("TypeError", "bad operand type"), kc |-> <<>>]
       ELSE [val |-> Operand(Filled(o, "unop", op, im_1, NoImage)),
             kc |-> <<KernelCall("unop", op, im_1.mode, o, im_1, NoImage)>>]

ApplyBinary(op, im_1, im_2, mode) ==
    LET m == ReconcileModes(im_1, im_2)
        s == ReconcileSizes(m[1], m[2])
        o == ImageNew(OutMode(mode, s[1]), s[1].size, NoneV)
    IN IF ~HasKernel(op, s[1].mode)
       THEN [val |-> Exc("TypeError", "bad operand type"), kc |-> <<>>]
       ELSE [val |-> Operand(Filled(o, "binop", op, s[1], s[2])),
             kc |-> <<KernelCall("binop", op, s[1].mode, o, s[1], s[2])>>]

\* _Operand.apply(self, op, im1, im2, mode); mode "" stands for None
Apply(self, op, im1, im2, mode) ==
    LET im_1 == Fixup(self, im1)
    IN IF IsExc(im_1) THEN [val |-> im_1, kc |-> <<>>]
       ELSE IF im2.k = "none" THEN ApplyUnary(op, im_1, mode)
       ELSE LET im_2 == Fixup(self, im2)
            IN IF IsExc(im_2) THEN [val |-> im_2, kc |-> <<>>]
               ELSE ApplyBinary(op, im_1, im_2, mode)

\* the unary operator methods of _Operand: operator |-> operation passed to apply
\* ("" for __pos__, which returns self)
UnaryMethod == [o \in {"abs", "pos", "neg", "invert"} |-> IF o = "pos" THEN "" ELSE o]

\* the binary operator methods of _Operand: <<reflected, operator>> |-> <<operation, self first>>
BinaryMethods == {
    <<FALSE, "add", "add">>, <<TRUE, "add", "add">>,
    <<FALSE, "sub", "sub">>, <<TRUE, "sub", "sub">>,
    <<FALSE, "mul", "mul">>, <<TRUE, "mul", "mul">>,
    <<FALSE, "truediv", "div">>, <<TRUE, "truediv", "div">>,
    <<FALSE, "mod", "mod">>, <<TRUE, "mod", "mod">>,
    <<FALSE, "pow", "pow">>, <<TRUE, "pow", "pow">>,
    <<FALSE, "and", "and">>, <<TRUE, "and", "and">>,
    <<FALSE, "or", "or">>, <<TRUE, "or", "or">>,
    <<FALSE, "xor", "xor">>, <<TRUE, "xor", "xor">>,
    <<FALSE, "lshift", "lshift">>,
    <<FALSE, "rshift", "rshift">>,
    <<FALSE, "eq", "eq">>, <<FALSE, "ne", "ne">>,
    <<FALSE, "lt", "lt">>, <<FALSE, "le", "le">>,
    <<FALSE, "gt", "gt">>, <<FALSE, "ge", "ge">> }

HasMethod(reflected, operator) == \E m \in BinaryMethods : m[1] = reflected /\ m[2] = operator

\* a method table lookup in which __rshift__ passes "lshift"
MethodOpSlip(reflected, operator) ==
    IF operator = "rshift" THEN "lshift"
    ELSE (CHOOSE m \in BinaryMethods : m[1] = reflected /\ m[2] = operator)[3]

MethodOp(reflected, operator) ==
    (CHOOSE m \in BinaryMethods : m[1] = reflected /\ m[2] = operator)[3]

\* _Operand.__abs__, __pos__, __neg__, __invert__
OperandUnary(operator, self) ==
    IF UnaryMethod[operator] = "" THEN [val |-> self, kc |-> <<>>]
    ELSE Apply(self, UnaryMethod[operator], self, NoneV, "")

\* _Operand.__add__ .. __ge__: self.apply(op, self, other)
OperandBinary(operator, self, other) == Apply(self, MethodOp(FALSE, operator), self, other, "")

\* _Operand.__radd__ .. __rxor__: self.apply(op, other, self)
OperandReflected(operator, self, other) == Apply(self, MethodOp(TRUE, operator), other, self, "")

\* imagemath_int, imagemath_float, imagemath_equal, imagemath_notequal,
\* imagemath_min, imagemath_max, imagemath_convert
Imagemath(name, a) ==
    IF name \in {n_int, n_float}
    THEN IF Len(a) # 1 THEN [val |-> Exc("TypeError", "arguments"), kc |-> <<>>]
         ELSE IF a[1].k # "operand" THEN [val |-> Exc("AttributeError", "im"), kc |-> <<>>]
         ELSE [val |-> Operand(ImageConvert(a[1].im, IF name = n_int THEN "I" ELSE "F")),
               kc |-> <<>>]
    ELSE IF Len(a) # 2 THEN [val |-> Exc("TypeError", "arguments"), kc |-> <<>>]
    ELSE IF name = n_convert
    THEN IF a[1].k # "operand" THEN [val |-> Exc("AttributeError", "im"), kc |-> <<>>]
         ELSE IF a[2].k # "str" THEN [val |-> Exc("TypeError", "mode"), kc |-> <<>>]
         ELSE [val |-> Operand(ImageConvert(a[1].im, a[2].s)), kc |-> <<>>]
    ELSE IF a[1].k # "operand" THEN [val |-> Exc("AttributeError", "apply"), kc |-> <<>>]
    ELSE IF name = n_equal THEN Apply(a[1], "eq", a[1], a[2], "I")
    ELSE IF name = n_notequal THEN Apply(a[1], "ne", a[1], a[2], "I")
    ELSE Apply(a[1], IF name = n_min THEN "min" ELSE "max", a[1], a[2], "")

\* the module's globals when ops is built
ModuleGlobals == {n_Operand, n_ops, n_eval,
                  imagemath_ \o n_int, imagemath_ \o n_float, imagemath_ \o n_equal,
                  imagemath_ \o n_notequal, imagemath_ \o n_min, imagemath_ \o n_max,
                  imagemath_ \o n_convert}

\* ops: every global named imagemath_X, under the key X
ops == [key \in {SubSeq(g, 11, Len(g)) :
                   g \in {h \in ModuleGlobals : Len(h) >= 10 /\ SubSeq(h, 1, 10) = imagemath_}}
          |-> Func(key)]

(* --------------------------- expressions ------------------------------ *)
\* the syntax trees of the expression texts; Invalid is a text that does not parse
Name(id) == [t |-> "name", id |-> id]
Const(v) == [t |-> "const", v |-> v]
Un(op, e) == [t |-> "un", op |-> op, e |-> e]
Bin(op, l, r) == [t |-> "bin", op |-> op, l |-> l, r |-> r]
Call(f, a) == [t |-> "call", f |-> f, a |-> a]
Lambda(params, body) == [t |-> "lambda", params |-> params, body |-> body]
Tup(elts) == [t |-> "tuple", elts |-> elts]
Invalid == [t |-> "invalid"]

Range(s) == {s[i] : i \in 1..Len(s)}

RECURSIVE CodeObject(_, _), CoNames(_, _), CoConsts(_, _)

\* co_names of the code unit that contains e; bound holds the parameters in scope
CoNames(e, bound) ==
    CASE e.t = "name" -> IF e.id \in bound THEN {} ELSE {e.id}
      [] e.t = "un" -> CoNames(e.e, bound)
      [] e.t = "bin" -> CoNames(e.l, bound) \cup CoNames(e.r, bound)
      [] e.t = "call" ->
            CoNames(e.f, bound) \cup UNION {CoNames(e.a[i], bound) : i \in 1..Len(e.a)}
      [] e.t = "tuple" -> UNION {CoNames(e.elts[i], bound) : i \in 1..Len(e.elts)}
      [] OTHER -> {}

\* co_consts of the code unit that contains e: constants and nested code objects
CoConsts(e, bound) ==
    CASE e.t = "const" -> <<[k |-> "const", v |-> e.v]>>
      [] e.t = "lambda" -> <<CodeObject(e.body, bound \cup Range(e.params))>>
      [] e.t = "un" -> CoConsts(e.e, bound)
      [] e.t = "bin" -> CoConsts(e.l, bound) \o CoConsts(e.r, bound)
      [] e.t = "call" ->
            IF Len(e.a) = 0 THEN CoConsts(e.f, bound)
            ELSE CoConsts(Call(e.f, SubSeq(e.a, 1, Len(e.a) - 1)), bound)
                   \o CoConsts(e.a[Len(e.a)], bound)
      [] e.t = "tuple" ->
            IF Len(e.elts) = 0 THEN <<>>
            ELSE CoConsts(Tup(SubSeq(e.elts, 1, Len(e.elts) - 1)), bound)
                   \o CoConsts(e.elts[Len(e.elts)], bound)
      [] OTHER -> <<>>

CodeObject(e, bound) ==
    [k |-> "code", co_names |-> CoNames(e, bound), co_consts |-> CoConsts(e, bound)]

\* compile(expression, "<string>", "eval")
Compile(text) == IF text.t = "invalid" THEN Exc("SyntaxError", "invalid syntax")
                 ELSE CodeObject(text, {})

\* a scan that checks the names of the outermost code object only
ScanShallow(code, ns) == \A name \in code.co_names : name \in DOMAIN ns \/ name = n_abs

RECURSIVE ScanOK(_, _)
\* scan(code) returns without raising
ScanOK(code, ns) ==
    /\ \A i \in 1..Len(code.co_consts) :
          code.co_consts[i].k = "code" => ScanOK(code.co_consts[i], ns)
    /\ \A name \in code.co_names : name \in DOMAIN ns \/ name = n_abs

(* ---------------------- execution of an expression -------------------- *)
IsNumber(v) == v.k \in {"num", "bool"}
IntOf(v) == IF v.k = "bool" THEN (IF v.v THEN 1 ELSE 0) ELSE v.v
Comparisons == {"eq", "ne", "lt", "le", "gt", "ge"}

\* the host's arithmetic on two numbers: exact for +, -, * and the comparisons,
\* an opaque host value for the other operators
HostBinary(operator, l, r) ==
    LET x == IntOf(l)
        y == IntOf(r)
    IN CASE operator = "add" -> Num(x + y)
         [] operator = "sub" -> Num(x - y)
         [] operator = "mul" -> Num(x * y)
         [] operator = "eq" -> Bool(x = y)
         [] operator = "ne" -> Bool(x # y)
         [] operator = "lt" -> Bool(x < y)
         [] operator = "le" -> Bool(x <= y)
         [] operator = "gt" -> Bool(x > y)
         [] operator = "ge" -> Bool(x >= y)
         [] OTHER -> HostResult(operator)

HostUnary(operator, v) ==
    LET x == IntOf(v)
    IN CASE operator = "pos" -> Num(x)
         [] operator = "neg" -> Num(0 - x)
         [] operator = "invert" -> Num(0 - x - 1)
         [] OTHER -> Num(IF x < 0 THEN 0 - x ELSE x)

\* the comparison the host tries on the right operand when the left one declines
Swapped(operator) ==
    CASE operator = "lt" -> "gt"
      [] operator = "gt" -> "lt"
      [] operator = "le" -> "ge"
      [] operator = "ge" -> "le"
      [] OTHER -> operator

\* the host's dispatch of a unary operator (and of abs()) on a value
UnaryOperator(operator, v) ==
    IF v.k = "operand" THEN OperandUnary(operator, v)
    ELSE IF IsNumber(v) THEN [val |-> HostUnary(operator, v), kc |-> <<>>]
    ELSE [val |-> Exc("TypeError", "bad operand type for unary"), kc |-> <<>>]

\* the host's dispatch of "l operator r": the left operand's method, else the
\* right operand's reflected method
BinaryOperator(operator, l, r) ==
    IF l.k = "operand" /\ HasMethod(FALSE, operator) THEN OperandBinary(operator, l, r)
    ELSE IF r.k = "operand"
    THEN IF operator \in Comparisons /\ HasMethod(FALSE, Swapped(operator))
         THEN OperandBinary(Swapped(operator), r, l)
         ELSE IF HasMethod(TRUE, operator) THEN OperandReflected(operator, r, l)
         ELSE [val |-> Exc("TypeError", "unsupported operand type(s)"), kc |-> <<>>]
    ELSE IF IsNumber(l) /\ IsNumber(r) THEN [val |-> HostBinary(operator, l, r), kc |-> <<>>]
    ELSE [val |-> Exc("TypeError", "unsupported operand type(s)"), kc |-> <<>>]

NoCells == [n \in {} |-> NoneV]

\* the names an execution context can reach: locals, globals, the builtins the
\* host attaches to the globals
\* (a globals mapping without the key __builtins__ gets the host's own builtins)
BuiltinsOf(globals) ==
    IF n_builtins2 \in DOMAIN globals THEN globals[n_builtins2].keys ELSE HostBuiltins

Resolution(name, src) == [name |-> name, src |-> src]

\* name lookup: a parameter or closure cell, else (at top level only) the locals,
\* else the globals, else the builtins
Lookup(id, sc) ==
    IF sc.fn /\ id \in DOMAIN sc.cells
    THEN [val |-> sc.cells[id], kc |-> <<>>, res |-> {Resolution(id, "cell")}]
    ELSE IF ~sc.fn /\ id \in DOMAIN sc.locals
    THEN [val |-> sc.locals[id], kc |-> <<>>, res |-> {Resolution(id, "locals")}]
    ELSE IF id \in DOMAIN sc.globals
    THEN [val |-> sc.globals[id], kc |-> <<>>, res |-> {Resolution(id, "globals")}]
    ELSE IF id \in BuiltinsOf(sc.globals)
    THEN [val |-> Builtin(id), kc |-> <<>>, res |-> {Resolution(id, "builtins")}]
    ELSE [val |-> Exc("NameError", "not defined"), kc |-> <<>>, res |-> {}]

RECURSIVE Eval(_, _), EvalSeq(_, _), CallValue(_, _, _)

\* the values of a sequence of expressions, left to right, up to the first exception
EvalSeq(es, sc) ==
    IF Len(es) = 0 THEN [vals |-> <<>>, kc |-> <<>>, res |-> {}, exc |-> NoneV]
    ELSE LET H == Eval(Head(es), sc)
         IN IF IsExc(H.val)
            THEN [vals |-> <<>>, kc |-> H.kc, res |-> H.res, exc |-> H.val]
            ELSE LET T == EvalSeq(Tail(es), sc)
                 IN [vals |-> <<H.val>> \o T.vals, kc |-> H.kc \o T.kc,
                     res |-> H.res \cup T.res, exc |-> T.exc]

\* the call f(*a)
CallValue(f, a, sc) ==
    CASE f.k = "func" ->
            LET R == Imagemath(f.name, a) IN [val |-> R.val, kc |-> R.kc, res |-> {}]
      [] f.k = "builtin" ->
            IF f.name # n_abs THEN [val |-> HostResult(f.name), kc |-> <<>>, res |-> {}]
            ELSE IF Len(a) # 1
            THEN [val |-> Exc("TypeError", "arguments"), kc |-> <<>>, res |-> {}]
            ELSE LET R == UnaryOperator("abs", a[1])
                 IN [val |-> R.val, kc |-> R.kc, res |-> {}]
      [] f.k = "closure" ->
            IF Len(a) # Len(f.params)
            THEN [val |-> Exc("TypeError", "arguments"), kc |-> <<>>, res |-> {}]
            ELSE Eval(f.body,
                      [sc EXCEPT !.fn = TRUE,
                                 !.cells = [n \in DOMAIN f.cells \cup Range(f.params) |->
                                              IF n \in Range(f.params)
                                              THEN a[CHOOSE i \in 1..Len(a) : f.params[i] = n]
                                              ELSE f.cells[n]]])
      [] OTHER -> [val |-> Exc("TypeError", "not callable"), kc |-> <<>>, res |-> {}]

\* the value of expression e in context sc, the kernels invoked, the names resolved
Eval(e, sc) ==
    CASE e.t = "name" -> Lookup(e.id, sc)
      [] e.t = "const" -> [val |-> e.v, kc |-> <<>>, res |-> {}]
      [] e.t = "lambda" ->
            [val |-> [k |-> "closure", params |-> e.params, body |-> e.body,
                      cells |-> IF sc.fn THEN sc.cells ELSE NoCells],
             kc |-> <<>>, res |-> {}]
      [] e.t = "un" ->
            LET X == Eval(e.e, sc)
            IN IF IsExc(X.val) THEN X
               ELSE LET R == UnaryOperator(e.op, X.val)
                    IN [val |-> R.val, kc |-> X.kc \o R.kc, res |-> X.res]
      [] e.t = "bin" ->
            LET A == EvalSeq(<<e.l, e.r>>, sc)
            IN IF IsExc(A.exc) THEN [val |-> A.exc, kc |-> A.kc, res |-> A.res]
               ELSE LET R == BinaryOperator(e.op, A.vals[1], A.vals[2])
                    IN [val |-> R.val, kc |-> A.kc \o R.kc, res |-> A.res]
      [] e.t = "tuple" ->
            LET A == EvalSeq(e.elts, sc)
            IN IF IsExc(A.exc) THEN [val |-> A.exc, kc |-> A.kc, res |-> A.res]
               ELSE [val |-> Tuple(A.vals), kc |-> A.kc, res |-> A.res]
      [] e.t = "call" ->
            LET A == EvalSeq(<<e.f>> \o e.a, sc)
            IN IF IsExc(A.exc) THEN [val |-> A.exc, kc |-> A.kc, res |-> A.res]
               ELSE LET R == CallValue(Head(A.vals), Tail(A.vals), sc)
                    IN [val |-> R.val, kc |-> A.kc \o R.kc, res |-> A.res \cup R.res]
      [] OTHER -> [val |-> Exc("SyntaxError", "invalid syntax"), kc |-> <<>>, res |-> {}]

\* the globals eval hands to the host: {"__builtins": {"abs": abs}}
EvalGlobals == [n \in {n_builtins1} |-> [k |-> "dict", keys |-> {n_abs}]]

\* builtins.eval(expression, globals, locals)
HostEval(text, globals, locals) ==
    Eval(text, [fn |-> FALSE, cells |-> NoCells, locals |-> locals, globals |-> globals])

(* ------------------------------- inputs -------------------------------- *)
Modes == {"1", "L", "I", "F", "RGB"}
Sizes == (1..MaxW) \X (1..MaxH)
Images(tag) == {InputImage(tag, m, sz) : m \in Modes, sz \in Sizes}

ArithmeticOperators == {"add", "sub", "mul", "truediv", "mod", "pow",
                        "and", "or", "xor", "lshift", "rshift"}
BinaryOperators == ArithmeticOperators \cup Comparisons
UnaryOperators == {"pos", "neg", "invert"}

A == Name(n_a)
B == Name(n_b)
Two == Const(Num(2))

\* expressions over both bindings
PairExprs ==
    {Bin(o, A, B) : o \in BinaryOperators}
    \cup {Call(Name(f), <<A, B>>) : f \in {n_min, n_max, n_equal, n_notequal}}
    \cup {Tup(<<A, B>>)}

\* expressions over the binding a and constants
SingleExprs ==
    {A, Two, Invalid, Name(n_c), Name(n_open), Name(n_int)}
    \cup {Un(o, A) : o \in UnaryOperators}
    \cup {Bin(o, A, Two) : o \in BinaryOperators}
    \cup {Bin(o, Two, A) : o \in BinaryOperators}
    \cup {Call(Name(f), <<A>>) : f \in {n_abs, n_int, n_float}}
    \cup {Call(Name(n_convert), <<A, Const(Str("L"))>>),
          Call(Name(n_max), <<A, Two>>),
          Call(Name(n_notequal), <<A, Two>>),
          Un("neg", Bin("add", A, Two)),
          Bin("add", A, Name(n_c)),
          Bin("add", Un("neg", A), Name(n_open)),
          Bin("add", Const(Num(1)), Two),
          Bin("lt", Const(Num(1)), Two),
          Tup(<<A, Two>>),
          Lambda(<<n_y>>, Name(n_y)),
          Call(Lambda(<<>>, Name(n_c)), <<>>),
          Call(Lambda(<<>>, Name(n_int)), <<>>),
          Call(Lambda(<<>>, Name(n_a)), <<>>),
          Call(Lambda(<<>>, Call(Name(n_abs), <<Const(Num(0 - 2))>>)), <<>>),
          Call(Lambda(<<>>, Call(Name(n_max), <<Const(Num(1)), Two>>)), <<>>),
          Call(Lambda(<<n_y>>, Call(Name(n_abs), <<Name(n_y)>>)), <<A>>),
          Call(Lambda(<<n_y>>, Bin("add", Name(n_y), Two)), <<A>>),
          Call(Lambda(<<n_y>>, Lambda(<<>>, Name(n_y))), <<A>>),
          Call(Lambda(<<>>, Call(Lambda(<<>>, Name(n_open)), <<>>)), <<>>),
          Bin("add", A, Call(Lambda(<<>>, Call(Lambda(<<>>, Name(n_c)), <<>>)), <<>>))}

Exprs == PairExprs \cup SingleExprs

DefaultA == InputImage("a", "L", <<1, 1>>)
DefaultB == InputImage("b", "I", <<1, 1>>)

Bind(key, v) == [n \in {key} |-> v]

\* d.update(e)
Update(d, e) == [n \in DOMAIN d \cup DOMAIN e |-> IF n \in DOMAIN e THEN e[n] ELSE d[n]]

\* the bindings of a call: a positionally, b by keyword, and possibly one more key
KeyCases == {"plain", "dict dunder", "dict builtin", "kw dunder", "kw builtin"}

DictOf(case, va) ==
    CASE case = "dict dunder" -> Update(Bind(n_a, va), Bind(n_a__b, Num(1)))
      [] case = "dict builtin" -> Update(Bind(n_a, va), Bind(n_len, Num(1)))
      [] OTHER -> Bind(n_a, va)

KwOf(case, vb) ==
    CASE case = "kw dunder" -> Update(Bind(n_b, vb), Bind(n_import, Num(1)))
      [] case = "kw builtin" -> Update(Bind(n_b, vb), Bind(n_abs, Num(1)))
      [] OTHER -> Bind(n_b, vb)

(* ------------------------------- eval ---------------------------------- *)
\* "__" in k
HasDunder(key) == \E i \in 1..(Len(key) - 1) : key[i] = "_" /\ key[i + 1] = "_"

\* a validation that tests the double underscore only
ForbiddenKeyDunderOnly(key) == HasDunder(key)

\* "__" in k or hasattr(builtins, k)
ForbiddenKey(key) == HasDunder(key) \/ key \in HostBuiltins

\* the keys the validation loop visits: list(_dict.keys()) + list(kw.keys())
BindingKeys(d, k) == DOMAIN d \cup DOMAIN k

\* a wrapping loop that wraps nothing
WrapNone(ns) == ns

\* args[k] = _Operand(v) for every value that has an attribute im
WrapAll(ns) == [n \in DOMAIN ns |-> IF HasIm(ns[n]) THEN Operand(ns[n]) ELSE ns[n]]

\* try: return out.im / except AttributeError: return out
Unwrapped(v) == IF HasIm(v) THEN v.im ELSE v

Init ==
    /\ pc = "build"
    /\ \E e \in Exprs, va \in Images("a") \cup {Num(3)}, vb \in Images("b"), case \in KeyCases :
          /\ e \notin PairExprs => vb = DefaultB
          /\ case # "plain" => va = DefaultA /\ vb = DefaultB
          /\ expression = e
          /\ _dict = DictOf(case, va)
          /\ kw = KwOf(case, vb)
    /\ args = NoCells
    /\ compiled_code = NoneV
    /\ out = NoneV
    /\ result = NoneV
    /\ exc = NoneV
    /\ kernelCalls = <<>>
    /\ resolved = {}
    /\ phases = <<>>

\* lines 246-251: copy ops, validate the binding names
BuildNamespace ==
    /\ pc = "build"
    /\ args' = ops
    /\ IF \E key \in BindingKeys(_dict, kw) : ForbiddenKey(key)
       THEN /\ pc' = "raised"
            /\ exc' = Exc("ValueError", "not allowed")
       ELSE /\ pc' = "update"
            /\ exc' = exc
    /\ phases' = Append(phases, "validate")
    /\ UNCHANGED <<expression, _dict, kw, compiled_code, out, result, kernelCalls, resolved>>

\* lines 253-254: merge the bindings
UpdateArgs ==
    /\ pc = "update"
    /\ args' = Update(Update(args, _dict), kw)
    /\ pc' = "wrap"
    /\ phases' = Append(phases, "update")
    /\ UNCHANGED <<expression, _dict, kw, compiled_code, out, result, exc, kernelCalls, resolved>>

\* lines 255-257: wrap the image-like values
WrapOperands ==
    /\ pc = "wrap"
    /\ args' = WrapAll(args)
    /\ pc' = "compile"
    /\ phases' = Append(phases, "wrap")
    /\ UNCHANGED <<expression, _dict, kw, compiled_code, out, result, exc, kernelCalls, resolved>>

\* line 259: compile the expression
CompileExpression ==
    /\ pc = "compile"
    /\ LET code == Compile(expression)
       IN IF IsExc(code)
          THEN /\ pc' = "raised"
               /\ exc' = code
               /\ compiled_code' = compiled_code
          ELSE /\ pc' = "scan"
               /\ exc' = exc
               /\ compiled_code' = code
    /\ phases' = Append(phases, "compile")
    /\ UNCHANGED <<expression, _dict, kw, args, out, result, kernelCalls, resolved>>

\* lines 261-271: scan the names of the code and of its nested code objects
ScanCode ==
    /\ pc = "scan"
    /\ IF ScanOK(compiled_code, args)
       THEN /\ pc' = "execute"
            /\ exc' = exc
       ELSE /\ pc' = "raised"
            /\ exc' = Exc("ValueError", "not allowed")
    /\ phases' = Append(phases, "scan")
    /\ UNCHANGED <<expression, _dict, kw, args, compiled_code, out, result, kernelCalls, resolved>>

\* line 272: evaluate the expression
Execute ==
    /\ pc = "execute"
    /\ LET R == HostEval(expression, EvalGlobals, args)
       IN /\ kernelCalls' = R.kc
          /\ resolved' = R.res
          /\ IF IsExc(R.val)
             THEN /\ pc' = "raised"
                  /\ exc' = R.val
                  /\ out' = out
             ELSE /\ pc' = "unwrap"
                  /\ exc' = exc
                  /\ out' = R.val
    /\ phases' = Append(phases, "execute")
    /\ UNCHANGED <<expression, _dict, kw, args, compiled_code, result>>

\* lines 273-276: unwrap the result
Unwrap ==
    /\ pc = "unwrap"
    /\ result' = Unwrapped(out)
    /\ pc' = "done"
    /\ phases' = Append(phases, "unwrap")
    /\ UNCHANGED <<expression, _dict, kw, args, compiled_code, out, exc, kernelCalls, resolved>>

Next == \/ BuildNamespace
        \/ UpdateArgs
        \/ WrapOperands
        \/ CompileExpression
        \/ ScanCode
        \/ Execute
        \/ Unwrap

Spec == Init /\ [][Next]_vars

(* ------------------------------ properties ----------------------------- *)
ExecutionStarted == "execute" \in Range(phases)
Failed == pc = "raised"
BindingNames == DOMAIN _dict \cup DOMAIN kw
NamespaceKeys == DOMAIN ops \cup BindingNames
ImageA == _dict[n_a].k = "img"
ModeA == _dict[n_a].mode
ModeB == kw[n_b].mode
SizeA == _dict[n_a].size
SizeB == kw[n_b].size
Supported == {"1", "L", "I", "F"}
IntegerKinds == {"1", "L", "I"}
Normal(m) == IF m \in {"1", "L"} THEN "I" ELSE m
Join(m1, m2) == IF Normal(m1) = Normal(m2) THEN Normal(m1) ELSE "F"

\* the expression is a binary operation on the two image bindings
PairOperation == expression \in PairExprs /\ expression.t # "tuple" /\ ImageA
ForcedMode == expression.t = "call" /\ expression.f.id \in {n_equal, n_notequal}
OperationName ==
    IF expression.t = "bin"
    THEN (IF expression.op = "truediv" THEN "div" ELSE expression.op)
    ELSE CASE expression.f.id = n_min -> "min"
           [] expression.f.id = n_max -> "max"
           [] expression.f.id = n_equal -> "eq"
           [] OTHER -> "ne"

HasStep(im, tok) == \E i \in 1..Len(im.hist) : im.hist[i] = tok
CropCount(im) == Cardinality({i \in 1..Len(im.hist) : im.hist[i].f = "crop"})
KernelMissing == Failed /\ exc = Exc("TypeError", "bad operand type") /\ kernelCalls = <<>>

RECURSIVE FreeIdentifiers(_, _)
\* the free identifiers of an expression, nested lambdas included
FreeIdentifiers(e, bound) ==
    CASE e.t = "name" -> IF e.id \in bound THEN {} ELSE {e.id}
      [] e.t = "lambda" -> FreeIdentifiers(e.body, bound \cup Range(e.params))
      [] e.t = "un" -> FreeIdentifiers(e.e, bound)
      [] e.t = "bin" -> FreeIdentifiers(e.l, bound) \cup FreeIdentifiers(e.r, bound)
      [] e.t = "call" -> FreeIdentifiers(e.f, bound)
                           \cup UNION {FreeIdentifiers(e.a[i], bound) : i \in 1..Len(e.a)}
      [] e.t = "tuple" -> UNION {FreeIdentifiers(e.elts[i], bound) : i \in 1..Len(e.elts)}
      [] OTHER -> {}

RECURSIVE ContainsOperand(_)
\* an Operand is the value or is reachable from it
ContainsOperand(v) ==
    CASE v.k = "operand" -> TRUE
      [] v.k = "tuple" -> \E i \in 1..Len(v.elts) : ContainsOperand(v.elts[i])
      [] v.k = "closure" -> \E n \in DOMAIN v.cells : ContainsOperand(v.cells[n])
      [] OTHER -> FALSE

\* C1: execution starts only after validation, merging, wrapping, compilation
\* and the scan, in this order; and an expression with a free identifier (at top
\* level or in a nested lambda) that is neither a namespace key nor abs is never
\* executed: no kernel is invoked, no name is resolved, and the failure is the
\* ValueError "not allowed".
C1_ScanPrecedesExecution ==
    /\ ExecutionStarted =>
          SubSeq(phases, 1, 6) = <<"validate", "update", "wrap", "compile", "scan", "execute">>
    /\ (\E id \in FreeIdentifiers(expression, {}) : id \notin NamespaceKeys /\ id # n_abs) =>
          /\ ~ExecutionStarted
          /\ pc \notin {"execute", "unwrap", "done"}
          /\ kernelCalls = <<>> /\ resolved = {} /\ out = NoneV /\ result = NoneV
          /\ Failed => exc = Exc("ValueError", "not allowed")

C1_Witness ==
    /\ Failed /\ phases = <<"validate", "update", "wrap", "compile", "scan">>
    /\ expression = Call(Lambda(<<>>, Call(Lambda(<<>>, Name(n_open)), <<>>)), <<>>)
    /\ exc.type = "ValueError" /\ kernelCalls = <<>>

\* C2: with a binding key that contains a double underscore or names a host
\* built-in, eval stops in the validation with the ValueError "not allowed": no
\* binding is in the namespace, no Operand exists, nothing is compiled, scanned
\* or executed, no kernel is invoked.
C2_NoPartialEvaluation ==
    (\E key \in BindingNames : HasDunder(key) \/ key \in HostBuiltins) =>
        /\ pc \in {"build", "raised"}
        /\ Failed => exc = Exc("ValueError", "not allowed") /\ phases = <<"validate">>
        /\ DOMAIN args \cap BindingNames = {}
        /\ \A n \in DOMAIN args : args[n].k # "operand"
        /\ compiled_code = NoneV /\ out = NoneV /\ result = NoneV
        /\ kernelCalls = <<>> /\ resolved = {}

C2_Witness ==
    /\ Failed /\ phases = <<"validate">> /\ exc.type = "ValueError"
    /\ n_a__b \in DOMAIN _dict /\ _dict[n_a].k = "img" /\ DOMAIN args = DOMAIN ops

\* C3: once the expression has been executed, the only name it resolved in the
\* host's builtins is abs, at top level and inside lambdas alike, and every
\* other free name was resolved to its entry in the namespace.
C3_OnlyAbsBuiltin ==
    ExecutionStarted =>
        \A r \in resolved :
            /\ r.src = "builtins" => r.name = n_abs
            /\ r.src \in {"locals", "cell"} \/ r.name = n_abs

\* C4: the value eval returns is not an Operand and no Operand is reachable
\* from it.
C4_NeverAnOperand == pc = "done" => ~ContainsOperand(result)

\* C5: a binary operation on images of sizes (w1, h1) and (w2, h2) whose modes
\* are supported hands the kernel two images and an output of size
\* (min(w1, w2), min(h1, h2)); an argument of another size is cropped once, with
\* the box (0, 0, w, h); an argument of that size is not cropped; the only
\* failure is a missing kernel.
C5_CommonSize ==
    (ExecutionStarted /\ PairOperation /\ ModeA \in Supported /\ ModeB \in Supported) =>
        LET size == << IF SizeA[1] < SizeB[1] THEN SizeA[1] ELSE SizeB[1],
                       IF SizeA[2] < SizeB[2] THEN SizeA[2] ELSE SizeB[2] >>
            box == Tok("crop", "", <<0, 0, size[1], size[2]>>)
        IN IF HasKernel(OperationName, Join(ModeA, ModeB))
           THEN /\ ~Failed /\ Len(kernelCalls) = 1
                /\ LET c == kernelCalls[1]
                   IN /\ c.im1.size = size /\ c.im2.size = size /\ c.out.size = size
                      /\ out.k = "operand" /\ out.im.size = size
                      /\ IF SizeA = size THEN CropCount(c.im1) = 0
                         ELSE CropCount(c.im1) = 1 /\ Head(c.im1.hist) = box
                      /\ IF SizeB = size THEN CropCount(c.im2) = 0
                         ELSE CropCount(c.im2) = 1 /\ Head(c.im2.hist) = box
           ELSE KernelMissing

C5_Witness ==
    /\ pc = "done" /\ expression = Bin("add", A, B) /\ ImageA
    /\ SizeA = <<2, 1>> /\ SizeB = <<1, 2>> /\ ModeA = "I" /\ ModeB = "I"
    /\ result.size = <<1, 1>> /\ CropCount(kernelCalls[1].im1) = 1

\* C6: a binary operation without forced output mode on two images whose
\* normalized modes differ converts the argument that is not "F" to "F", looks
\* the kernel up for "F" and returns an "F" image, whichever side the integer
\* image is on.
C6_FloatJoin ==
    (/\ ExecutionStarted /\ PairOperation /\ ~ForcedMode
     /\ ModeA \in Supported /\ ModeB \in Supported /\ Normal(ModeA) # Normal(ModeB)) =>
        IF HasKernel(OperationName, "F")
        THEN /\ ~Failed /\ Len(kernelCalls) = 1
             /\ LET c == kernelCalls[1]
                IN /\ c.mode = "F" /\ c.im1.mode = "F" /\ c.im2.mode = "F" /\ c.out.mode = "F"
                   /\ out.k = "operand" /\ out.im.mode = "F"
                   /\ HasStep(c.im1, Tok("convert", "F", <<>>)) <=> ModeA # "F"
                   /\ HasStep(c.im2, Tok("convert", "F", <<>>)) <=> ModeB # "F"
        ELSE KernelMissing

C6_Witness ==
    /\ pc = "done" /\ expression = Bin("sub", A, B) /\ ImageA
    /\ ModeA = "F" /\ ModeB = "L" /\ result.mode = "F"
    /\ kernelCalls[1].im2.mode = "F"

\* C7 as stated: when the SyntaxError of a text that does not parse is raised,
\* validation, merging and wrapping have not all been done.
C7_ParseErrorFirst ==
    (expression = Invalid /\ Failed /\ exc.type = "SyntaxError") =>
        ~({"validate", "update", "wrap"} \subseteq Range(phases))

\* C7 amended: a text that does not parse is never scanned or executed; eval
\* fails with the ValueError of the validation when a binding key is forbidden,
\* and otherwise with SyntaxError once validation, merging and wrapping are done:
\* the namespace then holds ops and every binding, images wrapped in Operands.
C7_ParseErrorAfterNamespace ==
    expression = Invalid =>
        /\ pc \notin {"scan", "execute", "unwrap", "done"}
        /\ compiled_code = NoneV /\ kernelCalls = <<>> /\ resolved = {}
        /\ Failed =>
              IF \E key \in BindingNames : HasDunder(key) \/ key \in HostBuiltins
              THEN exc = Exc("ValueError", "not allowed") /\ phases = <<"validate">>
              ELSE /\ exc = Exc("SyntaxError", "invalid syntax")
                   /\ phases = <<"validate", "update", "wrap", "compile">>
                   /\ DOMAIN args = NamespaceKeys
                   /\ args[n_a] = IF ImageA THEN Operand(_dict[n_a]) ELSE _dict[n_a]
                   /\ args[n_b] = Operand(kw[n_b])

C7_Witness ==
    /\ expression = Invalid /\ Failed /\ exc.type = "SyntaxError"
    /\ args[n_a].k = "operand" /\ "wrap" \in Range(phases)

\* the expression is "2 op a" for an arithmetic or bitwise operator
RightHanded ==
    /\ expression.t = "bin" /\ expression.l = Two /\ expression.r = A
    /\ expression.op \in ArithmeticOperators /\ ImageA

\* C8: "2 op a" ends as "a op 2" does, with the same operation, kernel mode and
\* output, and with the kernel's two image arguments swapped.
C8_ReflectedDispatch ==
    (ExecutionStarted /\ RightHanded) =>
        LET L == OperandBinary(expression.op, args[n_a], Num(2))
        IN IF IsExc(L.val) THEN Failed /\ exc = L.val
           ELSE /\ ~Failed /\ Len(kernelCalls) = 1
                /\ LET c == kernelCalls[1]
                       d == L.kc[1]
                   IN /\ c.op = d.op /\ c.mode = d.mode /\ c.out = d.out
                      /\ c.im1 = d.im2 /\ c.im2 = d.im1

\* the expression applies one operator method of _Operand to the binding a
UnaryOnA == \/ expression.t = "un" /\ expression.e = A
            \/ expression = Call(Name(n_abs), <<A>>)
LeftOnA == expression.t = "bin" /\ expression.l = A /\ expression.r \in {B, Two}
RightOnA == /\ expression.t = "bin" /\ expression.l = Two /\ expression.r = A
            /\ expression.op \notin {"lshift", "rshift"}
OperatorOnA == ImageA /\ (UnaryOnA \/ LeftOnA \/ RightOnA)

\* the operation name that belongs to the operator of the expression
ExpectedOperation ==
    IF expression.t = "call" THEN "abs"
    ELSE IF expression.t = "un" THEN expression.op
    ELSE IF expression.op = "truediv" THEN "div"
    ELSE IF expression.l = Two /\ expression.op \in Comparisons
    THEN (CASE expression.op = "lt" -> "gt"
            [] expression.op = "gt" -> "lt"
            [] expression.op = "le" -> "ge"
            [] expression.op = "ge" -> "le"
            [] OTHER -> expression.op)
    ELSE expression.op

OperandModes ==
    IF expression.t = "bin" /\ expression.r = B THEN {ModeA, ModeB} ELSE {ModeA}
ReconciledMode ==
    IF expression.t = "bin" /\ expression.r = B THEN Join(ModeA, ModeB) ELSE Normal(ModeA)

\* an operator routed through apply: unsupported modes are rejected, a missing
\* kernel is a TypeError, otherwise one kernel of the operation's name runs on
\* normalized arguments into a newly allocated image, wrapped in a new Operand
Routed ==
    IF ~(OperandModes \subseteq Supported)
    THEN Failed /\ exc = Exc("ValueError", "unsupported mode") /\ kernelCalls = <<>>
    ELSE IF ~HasKernel(ExpectedOperation, ReconciledMode) THEN KernelMissing
    ELSE /\ ~Failed /\ Len(kernelCalls) = 1
         /\ LET c == kernelCalls[1]
            IN /\ c.op = ExpectedOperation /\ c.mode = ReconciledMode
               /\ c.im1.mode = ReconciledMode
               /\ c.out.hist = <<Tok("new", c.out.mode, <<>>)>>
               /\ out.k = "operand" /\ out # args[n_a]
               /\ out.im.hist[1].f \in {"unop", "binop"}

\* C9 as stated: every operator on an Operand, unary + included, is routed
\* through apply.
C9_AllRouted == (ExecutionStarted /\ OperatorOnA) => Routed

\* C9 amended: every operator method of _Operand except unary + is routed
\* through apply; unary + returns the operand itself, whatever its mode, and
\* invokes no kernel.
C9_RoutedExceptPos ==
    (ExecutionStarted /\ OperatorOnA) =>
        IF expression.t = "un" /\ expression.op = "pos"
        THEN ~Failed /\ out = args[n_a] /\ kernelCalls = <<>>
        ELSE Routed

C9_Witness ==
    /\ pc = "done" /\ expression = Un("pos", A) /\ ImageA /\ ModeA = "RGB"
    /\ out = args[n_a] /\ result = _dict[n_a]

\* C10 as stated: a binary operation without forced output mode on two images
\* of different modes yields an "F" image from an "F" kernel.
C10_MixedAlwaysFloat ==
    (/\ ExecutionStarted /\ PairOperation /\ ~ForcedMode /\ ~Failed
     /\ ModeA \in Supported /\ ModeB \in Supported /\ ModeA # ModeB) =>
        out.im.mode = "F" /\ kernelCalls[1].mode = "F"

\* C10 amended: the result of such an operation is "F" exactly when the
\* normalized modes differ; two images of different integer kinds ("1", "L",
\* "I") are both passed as "I" images, unconverted to "F", to an "I" kernel, and
\* the result is an "I" image.
C10_IntegerKindsStayInteger ==
    (/\ ExecutionStarted /\ PairOperation /\ ~ForcedMode
     /\ ModeA \in Supported /\ ModeB \in Supported /\ ModeA # ModeB) =>
        /\ ~Failed => out.im.mode = Join(ModeA, ModeB)
        /\ (ModeA \in IntegerKinds /\ ModeB \in IntegerKinds) =>
              /\ ~Failed /\ Len(kernelCalls) = 1
              /\ LET c == kernelCalls[1]
                 IN /\ c.mode = "I" /\ c.im1.mode = "I" /\ c.im2.mode = "I"
                    /\ ~HasStep(c.im1, Tok("convert", "F", <<>>))
                    /\ ~HasStep(c.im2, Tok("convert", "F", <<>>))
                    /\ HasStep(c.im1, Tok("convert", "I", <<>>)) <=> ModeA # "I"
                    /\ HasStep(c.im2, Tok("convert", "I", <<>>)) <=> ModeB # "I"
                    /\ out.im.mode = "I"

C10_Witness ==
    /\ pc = "done" /\ expression = Bin("mul", A, B) /\ ImageA
    /\ ModeA = "L" /\ ModeB = "I" /\ result.mode = "I"
    /\ kernelCalls[1].mode = "I"

====
